---- MODULE Spec2Model ----
(***************************************************************************)
(* The Queue node of n8n-nodes-queue (src/nodes/Queue/Queue.node.ts): a    *)
(* FIFO queue / mutex kept in the workflow's static data.  One invocation  *)
(* of Queue.execute is modelled as a sequence of steps: Begin (read the    *)
(* inputs, initialise the static data), one Enqueue step per arrival, the  *)
(* promotion step, one Signal step per release signal, and Return.  The    *)
(* items of the two input batches are drawn when their loop iteration      *)
(* runs, and a loop ends when its batch has no further item.               *)
(*                                                                         *)
(* A queue entry is [key, data]; data is the identity of the input item    *)
(* (the payload copied to the output).  QueueEntry.timestamp is written    *)
(* from Date.now() and never read by the code, so it is not modelled.      *)
(***************************************************************************)
EXTENDS Integers, Sequences, FiniteSets, TLC

\* Bounds of the model.
MaxEntries == 4     \* input items that arrive over a whole behaviour
MaxData == 2        \* items in one invocation's data batch
MaxSignals == 2     \* items in one invocation's signal batch

\* The key values the model draws from: the empty string (the parameter's
\* default, falsy in JavaScript), an ordinary name, an integer-like name
\* (Object.keys lists those first) and a name every plain object inherits
\* from Object.prototype.
Keys == {"", "a", "1", "constructor"}

\* Property names that a lookup on the plain object `queues` finds on
\* Object.prototype when the object has no own property of that name.
InheritedKeys == {"constructor"}

\* Canonical array-index names, which Object.keys lists first, ascending.
IndexKeys == {"1"}

IndexValue(k) == CASE k = "1" -> 1 [] OTHER -> 0

\* A signal item: json.key is present (with a string value) or absent.
Signals == {[hasKey |-> FALSE, key |-> ""]} \cup {[hasKey |-> TRUE, key |-> k] : k \in Keys}

Range(s) == {s[j] : j \in 1..Len(s)}

\* The object literal {} : no own keys.
EmptyObject == [k \in {} |-> [queue |-> <<>>, locked |-> FALSE]]

\* The guard written as `signalKey === undefined`.
FalsyOnlyUndefined(sig) == ~sig.hasKey

\* `!signalKey` (line 148): json.key is undefined or the empty string.
Falsy(sig) == ~sig.hasKey \/ sig.key = ""

\* The admissions of a step put in front of the output array.
OutputUnshift(out, items) == items \o out

\* output.push(...) (lines 128, 137, 161, 176): the admissions a step decided
\* go to the end of the output array.
OutputPush(out, items) == out \o items

\* unshift in place of push.
PushFront(q, e) == <<e>> \o q

\* A queue used as a stack: pop in place of shift.
Pop(q) == SubSeq(q, 1, Len(q) - 1)

\* Array.prototype.push and Array.prototype.shift.
Push(q, e) == Append(q, e)

Shift(q) == Tail(q)

\* What the property read queues[key] yields: the own KeyQueueState, a value
\* inherited from Object.prototype (non-nullish, with no `queue` property),
\* or undefined.
Lookup(qs, key) ==
  IF key \in DOMAIN qs THEN "own"
  ELSE IF key \in InheritedKeys THEN "inherited"
  ELSE "undefined"

\* The promotion without the `!staticData.locked` check of line 125.
SinglePromoteIgnoresLock(q, l) ==
  IF Len(q) > 0
  THEN [locked |-> TRUE, out |-> <<q[1].data>>]
  ELSE [locked |-> l, out |-> <<>>]

\* The promotion without the length check of line 125.
SinglePromoteNoLengthCheck(q, l) ==
  IF ~l
  THEN [locked |-> TRUE, out |-> IF Len(q) > 0 THEN <<q[1].data>> ELSE <<>>]
  ELSE [locked |-> l, out |-> <<>>]

\* Single mode promotion (lines 124-130).
SinglePromote(q, l) ==
  IF ~l /\ Len(q) > 0
  THEN [locked |-> TRUE, out |-> <<q[1].data>>]
  ELSE [locked |-> l, out |-> <<>>]

\* The release without the eager promotion of lines 159-162.
SingleReleaseNoPromote(q, l, signalKey) ==
  IF Len(q) = 0 THEN [queue |-> q, locked |-> l, out |-> <<>>, did |-> "empty"]
  ELSE IF q[1].key = signalKey
  THEN [queue |-> Shift(q), locked |-> FALSE, out |-> <<>>, did |-> "released"]
  ELSE [queue |-> q, locked |-> l, out |-> <<>>, did |-> "mismatch"]

\* The release without the head-key comparison of line 155.
SingleReleaseAnyKey(q, l, signalKey) ==
  IF Len(q) = 0 THEN [queue |-> q, locked |-> l, out |-> <<>>, did |-> "empty"]
  ELSE LET t == Shift(q)
       IN  IF Len(t) > 0
           THEN [queue |-> t, locked |-> TRUE, out |-> <<t[1].data>>, did |-> "released"]
           ELSE [queue |-> t, locked |-> FALSE, out |-> <<>>, did |-> "released"]

\* Single mode release of one signal with a truthy key (lines 151-164).
SingleRelease(q, l, signalKey) ==
  IF Len(q) = 0 THEN [queue |-> q, locked |-> l, out |-> <<>>, did |-> "empty"]
  ELSE IF q[1].key = signalKey
  THEN LET t == Shift(q)
       IN  IF Len(t) > 0
           THEN [queue |-> t, locked |-> TRUE, out |-> <<t[1].data>>, did |-> "released"]
           ELSE [queue |-> t, locked |-> FALSE, out |-> <<>>, did |-> "released"]
  ELSE [queue |-> q, locked |-> l, out |-> <<>>, did |-> "mismatch"]

\* Multi mode enqueue of one entry whose key is not an inherited name
\* (lines 114-117): create the KeyQueueState when absent, then push.
MultiEnqueue(qs, order, entry) ==
  LET key == entry.key
      old == IF key \in DOMAIN qs THEN qs[key] ELSE [queue |-> <<>>, locked |-> FALSE]
  IN  [queues |-> [k \in DOMAIN qs \cup {key} |->
                     IF k = key THEN [old EXCEPT !.queue = Push(old.queue, entry)]
                     ELSE qs[k]],
       keyOrder |-> IF key \in DOMAIN qs THEN order ELSE Append(order, key)]

\* Insertion sort of index-like keys by numeric value.
RECURSIVE SortIndex(_)
SortIndex(s) ==
  IF Len(s) <= 1 THEN s
  ELSE LET rest == SortIndex(Tail(s))
           lo == SelectSeq(rest, LAMBDA k : IndexValue(k) < IndexValue(Head(s)))
           hi == SelectSeq(rest, LAMBDA k : IndexValue(k) >= IndexValue(Head(s)))
       IN  lo \o <<Head(s)>> \o hi

\* Object.keys(staticData.queues) (line 133): index-like keys ascending,
\* then the other string keys in insertion order.
ObjectKeys(order) ==
  SortIndex(SelectSeq(order, LAMBDA k : k \in IndexKeys))
    \o SelectSeq(order, LAMBDA k : k \notin IndexKeys)

\* The multi mode promotion leaving the loop of line 133 after its first key.
MultiPromoteFirstOnly(qs, ks) ==
  IF ks = <<>> THEN [queues |-> qs, out |-> <<>>]
  ELSE LET key == Head(ks)
           state == qs[key]
           hit == ~state.locked /\ Len(state.queue) > 0
       IN  [queues |-> IF hit THEN [qs EXCEPT ![key].locked = TRUE] ELSE qs,
            out |-> IF hit THEN <<state.queue[1].data>> ELSE <<>>]

\* The multi mode promotion without the `!state.locked` check of line 135.
RECURSIVE MultiPromoteIgnoresLock(_, _)
MultiPromoteIgnoresLock(qs, ks) ==
  IF ks = <<>> THEN [queues |-> qs, out |-> <<>>]
  ELSE LET key == Head(ks)
           state == qs[key]
           hit == Len(state.queue) > 0
           qs1 == IF hit THEN [qs EXCEPT ![key].locked = TRUE] ELSE qs
           rest == MultiPromoteIgnoresLock(qs1, Tail(ks))
       IN  [queues |-> rest.queues,
            out |-> (IF hit THEN <<state.queue[1].data>> ELSE <<>>) \o rest.out]

\* Multi mode promotion over the listed keys (lines 132-140).
RECURSIVE MultiPromote(_, _)
MultiPromote(qs, ks) ==
  IF ks = <<>> THEN [queues |-> qs, out |-> <<>>]
  ELSE LET key == Head(ks)
           state == qs[key]
           hit == ~state.locked /\ Len(state.queue) > 0
           qs1 == IF hit THEN [qs EXCEPT ![key].locked = TRUE] ELSE qs
           rest == MultiPromote(qs1, Tail(ks))
       IN  [queues |-> rest.queues,
            out |-> (IF hit THEN <<state.queue[1].data>> ELSE <<>>) \o rest.out]

\* The release without the delete of line 178.
MultiReleaseNoDelete(qs, order, signalKey) ==
  LET state == qs[signalKey]
  IN  IF Len(state.queue) = 0
      THEN [queues |-> qs, keyOrder |-> order, out |-> <<>>, did |-> "empty"]
      ELSE LET t == Shift(state.queue)
           IN  [queues |-> [qs EXCEPT ![signalKey] = [queue |-> t, locked |-> Len(t) > 0]],
                keyOrder |-> order,
                out |-> IF Len(t) > 0 THEN <<t[1].data>> ELSE <<>>,
                did |-> "released"]

\* The release that, when a queue empties, resets the whole mapping.
MultiReleaseResetAll(qs, order, signalKey) ==
  LET state == qs[signalKey]
  IN  IF Len(state.queue) = 0
      THEN [queues |-> qs, keyOrder |-> order, out |-> <<>>, did |-> "empty"]
      ELSE LET t == Shift(state.queue)
           IN  IF Len(t) > 0
               THEN [queues |-> [qs EXCEPT ![signalKey] = [queue |-> t, locked |-> TRUE]],
                     keyOrder |-> order,
                     out |-> <<t[1].data>>,
                     did |-> "released"]
               ELSE [queues |-> EmptyObject, keyOrder |-> <<>>, out |-> <<>>,
                     did |-> "released"]

\* The release that admits the next entry and forgets to shift the head.
MultiReleaseNoShift(qs, order, signalKey) ==
  LET state == qs[signalKey]
  IN  IF Len(state.queue) = 0
      THEN [queues |-> qs, keyOrder |-> order, out |-> <<>>, did |-> "empty"]
      ELSE IF Len(state.queue) > 1
      THEN [queues |-> qs, keyOrder |-> order, out |-> <<state.queue[2].data>>,
            did |-> "released"]
      ELSE [queues |-> [k \in DOMAIN qs \ {signalKey} |-> qs[k]],
            keyOrder |-> SelectSeq(order, LAMBDA k : k # signalKey),
            out |-> <<>>,
            did |-> "released"]

\* Multi mode release of one signal whose key is an own key of queues
\* (lines 167-180).
MultiRelease(qs, order, signalKey) ==
  LET state == qs[signalKey]
  IN  IF Len(state.queue) = 0
      THEN [queues |-> qs, keyOrder |-> order, out |-> <<>>, did |-> "empty"]
      ELSE LET t == Shift(state.queue)
           IN  IF Len(t) > 0
               THEN [queues |-> [qs EXCEPT ![signalKey] = [queue |-> t, locked |-> TRUE]],
                     keyOrder |-> order,
                     out |-> <<t[1].data>>,
                     did |-> "released"]
               ELSE [queues |-> [k \in DOMAIN qs \ {signalKey} |-> qs[k]],
                     keyOrder |-> SelectSeq(order, LAMBDA k : k # signalKey),
                     out |-> <<>>,
                     did |-> "released"]

VARIABLES
  mode,         \* node parameter 'mode'
  queue,        \* staticData.queue   (single mode)
  locked,       \* staticData.locked  (single mode)
  queues,       \* staticData.queues  (multi mode): own keys -> KeyQueueState
  keyOrder,     \* insertion order of the own keys of staticData.queues
  pc,           \* position of the invocation
  i,            \* loop index of the running loop (1-based)
  output,       \* the local array `output`
  nextId,       \* identity of the next input item
  arrived,      \* history: entries pushed into a queue, in push order
  emitted,      \* history: payloads pushed to `output`, over all invocations
  start,        \* history: the static data when the running invocation began
  lastSignal,   \* history: the previous signal of this invocation and its effect
  peer          \* a second node, in multi mode, run side by side (EqSpec)

vars == <<mode, queue, locked, queues, keyOrder, pc, i, output, nextId, arrived,
          emitted, start, lastSignal, peer>>

\* The second node while no side-by-side run takes place.
NoPeer == [key |-> "", queues |-> EmptyObject, keyOrder |-> <<>>, pc |-> "idle",
           output |-> <<>>]

\* The snapshot held by `start` while no invocation runs.
NoStart == [queue |-> <<>>, locked |-> FALSE, queues |-> EmptyObject, nextId |-> 0]

Init ==
  /\ mode \in {"modeSingle", "modeMulti"}
  /\ queue = <<>>
  /\ locked = FALSE
  /\ queues = EmptyObject
  /\ keyOrder = <<>>
  /\ pc = "idle"
  /\ i = 1
  /\ output = <<>>
  /\ nextId = 1
  /\ arrived = <<>>
  /\ emitted = <<>>
  /\ start = NoStart
  /\ lastSignal = <<>>
  /\ peer = NoPeer

\* Lines 75-95: read the mode and the inputs and give the static data its
\* shape (`??=` keeps what is there).  The host runs one invocation at a time.
Begin ==
  /\ pc \in {"idle", "returned", "thrown"}
  /\ output' = <<>>
  /\ i' = 1
  /\ pc' = "enqueue"
  /\ start' = [queue |-> queue, locked |-> locked, queues |-> queues, nextId |-> nextId]
  /\ lastSignal' = <<>>
  /\ UNCHANGED <<peer, mode, queue, locked, queues, keyOrder, nextId, arrived, emitted>>

\* Lines 101-112: one iteration of the enqueue loop, single mode; `key` is
\* the item's 'key' parameter.
EnqueueSingle ==
  /\ pc = "enqueue" /\ i <= MaxData /\ nextId <= MaxEntries /\ mode = "modeSingle"
  /\ \E key \in Keys :
       LET entry == [key |-> key, data |-> nextId]
       IN  /\ queue' = Push(queue, entry)
           /\ arrived' = Append(arrived, entry)
  /\ nextId' = nextId + 1
  /\ i' = i + 1
  /\ UNCHANGED <<peer, mode, locked, queues, keyOrder, pc, output, emitted, start,
                 lastSignal>>

\* The state in which an invocation that threw leaves the model: no output
\* batch, the locals gone.
Thrown ==
  /\ pc' = "thrown"
  /\ output' = <<>>
  /\ i' = 1

\* Lines 101-108, 114-117: one iteration of the enqueue loop, multi mode.
\* For a key that queues inherits, `??=` assigns nothing and
\* `.queue.push` is a call on undefined: the invocation ends with a TypeError,
\* the static data staying as mutated so far and no output being returned.
EnqueueMulti ==
  /\ pc = "enqueue" /\ i <= MaxData /\ nextId <= MaxEntries /\ mode = "modeMulti"
  /\ \E key \in Keys :
       LET entry == [key |-> key, data |-> nextId]
       IN  IF Lookup(queues, key) = "inherited"
           THEN /\ Thrown
                /\ UNCHANGED <<queues, keyOrder, arrived, lastSignal>>
           ELSE LET r == MultiEnqueue(queues, keyOrder, entry)
                IN  /\ queues' = r.queues
                    /\ keyOrder' = r.keyOrder
                    /\ arrived' = Append(arrived, entry)
                    /\ i' = i + 1
                    /\ UNCHANGED <<pc, output, lastSignal>>
  /\ nextId' = nextId + 1
  /\ UNCHANGED <<peer, mode, queue, locked, emitted, start>>

\* Lines 124-130: promotion after the enqueue loop, single mode.
PromoteSingle ==
  /\ pc = "enqueue" /\ mode = "modeSingle"
  /\ LET r == SinglePromote(queue, locked)
     IN  /\ locked' = r.locked
         /\ output' = OutputPush(output, r.out)
         /\ emitted' = emitted \o r.out
  /\ pc' = "signal"
  /\ i' = 1
  /\ UNCHANGED <<peer, mode, queue, queues, keyOrder, nextId, arrived, start, lastSignal>>

\* Lines 132-140: promotion after the enqueue loop, multi mode.
PromoteMulti ==
  /\ pc = "enqueue" /\ mode = "modeMulti"
  /\ LET r == MultiPromote(queues, ObjectKeys(keyOrder))
     IN  /\ queues' = r.queues
         /\ output' = OutputPush(output, r.out)
         /\ emitted' = emitted \o r.out
  /\ pc' = "signal"
  /\ i' = 1
  /\ UNCHANGED <<peer, mode, queue, locked, keyOrder, nextId, arrived, start, lastSignal>>

\* Lines 146-148: a signal whose key is undefined or empty is skipped.
SignalSkip ==
  /\ pc = "signal" /\ i <= MaxSignals
  /\ \E sig \in Signals :
       /\ Falsy(sig)
       /\ lastSignal' = <<[sig |-> sig, did |-> "nokey"]>>
  /\ i' = i + 1
  /\ UNCHANGED <<peer, mode, queue, locked, queues, keyOrder, pc, output, nextId,
                 arrived, emitted, start>>

\* Lines 146-164: one signal with a truthy key, single mode.
SignalSingle ==
  /\ pc = "signal" /\ i <= MaxSignals /\ mode = "modeSingle"
  /\ \E sig \in Signals :
       /\ ~Falsy(sig)
       /\ LET r == SingleRelease(queue, locked, sig.key)
          IN  /\ queue' = r.queue
              /\ locked' = r.locked
              /\ output' = OutputPush(output, r.out)
              /\ emitted' = emitted \o r.out
              /\ lastSignal' = <<[sig |-> sig, did |-> r.did]>>
  /\ i' = i + 1
  /\ UNCHANGED <<peer, mode, queues, keyOrder, pc, nextId, arrived, start>>

\* Lines 146-148, 167-180: one signal with a truthy key, multi mode.  For a key
\* that queues inherits, `state` is truthy and `state.queue.length` reads a
\* property of undefined: the invocation ends with a TypeError.
SignalMulti ==
  /\ pc = "signal" /\ i <= MaxSignals /\ mode = "modeMulti"
  /\ \E sig \in Signals :
       /\ ~Falsy(sig)
       /\ LET found == Lookup(queues, sig.key)
          IN  CASE found = "inherited" ->
                     /\ Thrown
                     /\ lastSignal' = <<[sig |-> sig, did |-> "TypeError"]>>
                     /\ UNCHANGED <<queues, keyOrder, emitted>>
                [] found = "undefined" ->
                     /\ lastSignal' = <<[sig |-> sig, did |-> "absent"]>>
                     /\ i' = i + 1
                     /\ UNCHANGED <<queues, keyOrder, pc, output, emitted>>
                [] found = "own" ->
                     LET r == MultiRelease(queues, keyOrder, sig.key)
                     IN  /\ queues' = r.queues
                         /\ keyOrder' = r.keyOrder
                         /\ output' = OutputPush(output, r.out)
                         /\ emitted' = emitted \o r.out
                         /\ lastSignal' = <<[sig |-> sig, did |-> r.did]>>
                         /\ i' = i + 1
                         /\ UNCHANGED pc
  /\ UNCHANGED <<peer, mode, queue, locked, nextId, arrived, start>>

\* Line 183: the output batch is returned to the host; the locals of the
\* invocation are gone.
Return ==
  /\ pc = "signal"
  /\ pc' = "returned"
  /\ i' = 1
  /\ lastSignal' = <<>>
  /\ UNCHANGED <<peer, mode, queue, locked, queues, keyOrder, output, nextId, arrived,
                 emitted, start>>

Next ==
  \/ Begin
  \/ EnqueueSingle
  \/ EnqueueMulti
  \/ PromoteSingle
  \/ PromoteMulti
  \/ SignalSkip
  \/ SignalSingle
  \/ SignalMulti
  \/ Return

Spec == Init /\ [][Next]_vars

(***************************************************************************)
(* Vocabulary of the properties.                                           *)
(***************************************************************************)

\* The keys that name a queue: the one global queue of single mode is named
\* "*"; in multi mode every key names its own queue.
GlobalQueue == "*"

QueueNames == IF mode = "modeSingle" THEN {GlobalQueue} ELSE Keys

\* The content and the lock of a queue in given static data (an absent key is
\* an empty, unlocked queue).
QueueIn(sd, name) ==
  IF name = GlobalQueue THEN sd.queue
  ELSE IF name \in DOMAIN sd.queues THEN sd.queues[name].queue ELSE <<>>

LockedIn(sd, name) ==
  IF name = GlobalQueue THEN sd.locked
  ELSE IF name \in DOMAIN sd.queues THEN sd.queues[name].locked ELSE FALSE

Now == [queue |-> queue, locked |-> locked, queues |-> queues]

Next_ == [queue |-> queue', locked |-> locked', queues |-> queues']

\* The queue an arrived payload went into.
EntryOf(d) == CHOOSE e \in Range(arrived) : e.data = d

QueueOf(d) == IF mode = "modeSingle" THEN GlobalQueue ELSE EntryOf(d).key

\* The payloads of a sequence of entries.
DataOf(q) == [j \in 1..Len(q) |-> q[j].data]

IsPrefix(a, b) == Len(a) <= Len(b) /\ a = SubSeq(b, 1, Len(a))

\* The payloads a step pushes to `output`.
Pushed == SubSeq(emitted', Len(emitted) + 1, Len(emitted'))

\* A step that processes one signal (it may end the invocation by throwing);
\* the signal is then recorded in lastSignal'.
SignalStep == pc = "signal" /\ pc' # "returned"

TheSignal == lastSignal'[1].sig

\* C1: at-most-one-holder.  In every reachable state, in both modes, the
\* entries of a queue that have been emitted and are still in the queue are
\* at most one, and that one is the head: no entry behind the head of any
\* queue has been emitted.
C1_AtMostOneHolder ==
  \A name \in QueueNames :
    LET q == QueueIn(Now, name)
    IN  \A j \in 2..Len(q) : q[j].data \notin Range(emitted)

\* A queue whose head holds the lock while another entry waits, after an
\* earlier holder was released.
C1_Witness ==
  /\ pc = "returned"
  /\ \E name \in QueueNames :
       LET q == QueueIn(Now, name)
       IN  /\ Len(q) >= 2
           /\ q[1].data \in Range(emitted)
           /\ \E d \in Range(emitted) : QueueOf(d) = name /\ d \notin Range(DataOf(q))

\* C2: FIFO.  For every queue, the payloads emitted from it, in emission
\* order, are a prefix of the payloads that arrived into it, in arrival order.
C2_Fifo ==
  \A name \in QueueNames :
    IsPrefix(SelectSeq(emitted, LAMBDA d : QueueOf(d) = name),
             SelectSeq(DataOf(arrived), LAMBDA d : QueueOf(d) = name))

\* Three entries arrived into one queue and the first two were emitted.
C2_Witness ==
  \E name \in QueueNames :
    /\ Len(SelectSeq(DataOf(arrived), LAMBDA d : QueueOf(d) = name)) >= 3
    /\ Len(SelectSeq(emitted, LAMBDA d : QueueOf(d) = name)) >= 2

\* C3: release correctness, single mode.  A signal whose key differs from the
\* key of the head (json.key absent included) leaves the global queue and the
\* locked flag as they are and pushes nothing to the output.
C3_MismatchIgnored ==
  [][(/\ mode = "modeSingle"
      /\ SignalStep
      /\ Len(queue) > 0
      /\ (~TheSignal.hasKey \/ TheSignal.key # queue[1].key))
     => (queue' = queue /\ locked' = locked /\ output' = output)]_vars

\* A signal was ignored for its key while an entry behind the head carries
\* that very key.
C3_Witness ==
  /\ mode = "modeSingle"
  /\ pc = "signal"
  /\ lastSignal # <<>>
  /\ lastSignal[1].sig.hasKey
  /\ Len(queue) >= 2
  /\ lastSignal[1].sig.key # queue[1].key
  /\ \E j \in 2..Len(queue) : queue[j].key = lastSignal[1].sig.key
  /\ locked

\* What the code takes for an unmatched signal: no key or an empty key; in
\* single mode an empty queue or a head with another key; in multi mode no
\* own queue for the key, or an empty one.
Unmatched(sig) ==
  \/ ~sig.hasKey
  \/ sig.key = ""
  \/ mode = "modeSingle" /\ (queue = <<>> \/ queue[1].key # sig.key)
  \/ mode = "modeMulti" /\ (sig.key \notin DOMAIN queues \/ queues[sig.key].queue = <<>>)

\* The signal of this step repeats the previous signal of the batch, which
\* removed a head.
DuplicateAfterRelease ==
  /\ lastSignal # <<>>
  /\ lastSignal[1].did = "released"
  /\ TheSignal = lastSignal[1].sig

\* C4 as stated: in both modes a release signal processed a second time,
\* after the first advanced the head, removes no entry and emits nothing.
C4_DuplicateNoOp ==
  [][(SignalStep /\ DuplicateAfterRelease)
     => (queue' = queue /\ queues' = queues /\ output' = output)]_vars

\* C4 as amended: an unmatched signal emits nothing and changes no queue and
\* no lock; a signal repeated after it advanced the head is such a no-op only
\* when it is then unmatched, and otherwise removes the new head of its queue
\* as well.
C4_UnmatchedOrDuplicate ==
  [][SignalStep =>
       /\ Unmatched(TheSignal)
            => (queue' = queue /\ locked' = locked /\ queues' = queues /\ Pushed = <<>>)
       /\ (DuplicateAfterRelease /\ ~Unmatched(TheSignal))
            => LET name == IF mode = "modeSingle" THEN GlobalQueue ELSE TheSignal.key
               IN  /\ QueueIn(Now, name) # <<>>
                   /\ QueueIn(Next_, name) = Tail(QueueIn(Now, name))]_vars

\* Single mode, no arrival in this invocation: the first signal released the
\* head and the same signal, sent again, met a head with another key.
C4_Witness ==
  /\ mode = "modeSingle"
  /\ pc = "signal"
  /\ i = 3
  /\ nextId = start.nextId
  /\ Len(start.queue) >= 2
  /\ queue = Tail(start.queue)
  /\ lastSignal # <<>>
  /\ lastSignal[1].did = "mismatch"
  /\ lastSignal[1].sig.hasKey
  /\ lastSignal[1].sig.key = start.queue[1].key

\* C5: garbage collection, multi mode.  Every key of the mapping has a
\* non-empty queue, in every state (so at the end of every invocation): a
\* release that empties a key's queue deletes the key, and enqueue creates a
\* key only together with its first entry.
C5_NoEmptyQueueInMapping ==
  /\ \A k \in DOMAIN queues : queues[k].queue # <<>>
  /\ Range(keyOrder) = DOMAIN queues

\* A release has just emptied the queue of a key, which is gone from the
\* mapping, while another key is still there.
C5_Witness ==
  /\ mode = "modeMulti"
  /\ pc = "signal"
  /\ lastSignal # <<>>
  /\ lastSignal[1].did = "released"
  /\ lastSignal[1].sig.key \notin DOMAIN queues
  /\ DOMAIN queues # {}

\* C6: key independence, multi mode.  Processing a signal for key a leaves
\* every other key as it is (present or absent, queue and lock) and pushes
\* to the output only entries of key a.
C6_KeyIndependence ==
  [][(mode = "modeMulti" /\ SignalStep /\ TheSignal.hasKey)
     => /\ \A b \in Keys \ {TheSignal.key} :
             /\ (b \in DOMAIN queues') = (b \in DOMAIN queues)
             /\ b \in DOMAIN queues => queues'[b] = queues[b]
        /\ \A d \in Range(Pushed) : EntryOf(d).key = TheSignal.key]_vars

\* A release for one key has just emptied that key's queue while another
\* key holds its lock with an entry waiting.
C6_Witness ==
  /\ mode = "modeMulti"
  /\ pc = "signal"
  /\ lastSignal # <<>>
  /\ lastSignal[1].did = "released"
  /\ lastSignal[1].sig.key \notin DOMAIN queues
  /\ \E b \in DOMAIN queues : queues[b].locked /\ Len(queues[b].queue) >= 2

\* C7: ignored signals.  A signal with no key, in multi mode a signal whose
\* key has no queue in the mapping (or an empty one), in single mode any
\* signal while the global queue is empty: the static data stays as it is,
\* nothing is emitted, no error is raised and the loop goes on to the next
\* signal.
C7_IgnoredSignals ==
  [][(/\ SignalStep
      /\ \/ ~TheSignal.hasKey
         \/ mode = "modeMulti" /\ TheSignal.key \notin DOMAIN queues
         \/ mode = "modeMulti" /\ TheSignal.key \in DOMAIN queues
              /\ queues[TheSignal.key].queue = <<>>
         \/ mode = "modeSingle" /\ queue = <<>>)
     => /\ queue' = queue /\ locked' = locked
        /\ queues' = queues /\ keyOrder' = keyOrder
        /\ output' = output
        /\ pc' = "signal"
        /\ i' = i + 1]_vars

\* The payloads emitted from a queue, in emission order.
EmittedFrom(name) == SelectSeq(emitted, LAMBDA d : QueueOf(d) = name)

\* C8: lock invariant.  In every state, between any two steps of an
\* invocation as well as between invocations, a locked queue is non-empty and
\* its head is the entry last emitted from that queue.
C8_LockInvariant ==
  \A name \in QueueNames :
    LockedIn(Now, name) =>
      /\ QueueIn(Now, name) # <<>>
      /\ EmittedFrom(name) # <<>>
      /\ QueueIn(Now, name)[1].data = EmittedFrom(name)[Len(EmittedFrom(name))]

\* Between two signals of a batch: a release has just handed the lock to the
\* second holder of a queue, with another entry waiting.
C8_Witness ==
  /\ pc = "signal"
  /\ lastSignal # <<>>
  /\ lastSignal[1].did = "released"
  /\ \E name \in QueueNames :
       /\ LockedIn(Now, name)
       /\ Len(QueueIn(Now, name)) >= 2
       /\ Len(EmittedFrom(name)) >= 2

\* Whether a queue was busy (locked or non-empty) when the invocation began.
BusyAtStart(name) == QueueIn(start, name) # <<>> \/ LockedIn(start, name)

\* C9 as stated: an entry that arrives in an invocation into a queue that was
\* locked or non-empty at its start is not in that invocation's output.
C9_NoSameInvocationAdmission ==
  \A d \in Range(output) : d >= start.nextId => ~BusyAtStart(QueueOf(d))

\* C9 as amended: such an entry is never emitted by the enqueue and promotion
\* steps of its invocation; an entry is emitted behind another only by the
\* step that processes a release signal matching the entry ahead of it and
\* removes that entry, in the same invocation or a later one.
C9_WaiterAdmittedOnlyByRelease ==
  [][/\ Pushed # <<>> => (pc = "enqueue" /\ pc' = "signal") \/ SignalStep
     /\ (pc = "enqueue" /\ pc' = "signal")
          => \A d \in Range(Pushed) : d >= start.nextId => ~BusyAtStart(QueueOf(d))
     /\ SignalStep
          => \A d \in Range(Pushed) :
               LET q == QueueIn(Now, QueueOf(d))
               IN  /\ Len(q) >= 2
                   /\ q[2].data = d
                   /\ QueueIn(Next_, QueueOf(d)) = Tail(q)
                   /\ TheSignal.hasKey
                   /\ TheSignal.key = q[1].key]_vars

\* An entry that arrived behind a holder is in the output of the very
\* invocation it arrived in: the batch's signal released the holder.
C9_Witness ==
  /\ pc = "signal"
  /\ \E d \in Range(output) : d >= start.nextId /\ BusyAtStart(QueueOf(d))

\* The payloads that arrived into a queue in the running invocation.
ArrivalsInto(name) ==
  SelectSeq(DataOf(arrived), LAMBDA d : d >= start.nextId /\ QueueOf(d) = name)

\* C10: same-invocation promotion.  When the invocation leaves its enqueue
\* loop, every queue that was empty and unlocked at the start and received an
\* arrival has its first arrival in the output and is locked; in multi mode
\* for every such key of the batch.
C10_SameInvocationPromotion ==
  [][(pc = "enqueue" /\ pc' # "enqueue")
     => \A name \in QueueNames :
          (~BusyAtStart(name) /\ ArrivalsInto(name) # <<>>)
            => /\ ArrivalsInto(name)[1] \in Range(output')
               /\ LockedIn(Next_, name)]_vars

\* The step that runs the promotion (lines 124-140).
PromotionStep == pc = "enqueue" /\ pc' = "signal"

\* C11: output order.  The output batch is built in the order the admissions
\* are decided: the promotion step finds the output empty and leaves exactly
\* its admissions in it, and every signal step after it appends its admission
\* behind all earlier ones, so promotions precede releases' admissions and
\* those follow the order of the signals.
C11_OutputOrder ==
  [][/\ PromotionStep => (output = <<>> /\ output' = Pushed)
     /\ (SignalStep /\ pc' = "signal") => output' = output \o Pushed]_vars

\* An output batch with a promoted arrival first and, behind it, the
\* admission caused by a release signal of the same batch.
C11_Witness ==
  /\ pc = "signal"
  /\ lastSignal # <<>>
  /\ lastSignal[1].did = "released"
  /\ Len(output) >= 2
  /\ output[1] >= start.nextId
  /\ ~BusyAtStart(QueueOf(output[1]))
  /\ BusyAtStart(QueueOf(output[Len(output)]))

\* One iteration of the enqueue loop: it takes the input item nextId.
EnqueueStep == pc = "enqueue" /\ nextId' = nextId + 1

\* The iteration appended the item, with some key, to the queue the key
\* selects and left every other queue and every lock as they were.
Appended ==
  \E key \in Keys :
    LET name == IF mode = "modeSingle" THEN GlobalQueue ELSE key
    IN  /\ QueueIn(Next_, name)
             = Append(QueueIn(Now, name), [key |-> key, data |-> nextId])
        /\ \A other \in QueueNames \ {name} :
             QueueIn(Next_, other) = QueueIn(Now, other)
        /\ \A any \in QueueNames : LockedIn(Next_, any) = LockedIn(Now, any)

\* C12: enqueue never rejects.  Every iteration of the enqueue loop appends
\* its arrival to its queue (the global queue in single mode, the key's queue
\* in multi mode), whatever the lock state, and the loop goes on: so after
\* the enqueue step each queue is its former content followed by the batch's
\* arrivals for it, in batch order.
C12_EnqueueNeverRejects ==
  [][EnqueueStep => (pc' = "enqueue" /\ Appended)]_vars

\* C13: the unlocked-and-non-empty state is transient.  Between invocations
\* (after one returned or threw), in both modes, a queue is locked exactly
\* when it is non-empty.
C13_LockedIffNonEmpty ==
  pc \in {"returned", "thrown"}
    => \A name \in QueueNames : LockedIn(Now, name) = (QueueIn(Now, name) # <<>>)

\* C14: eager promotion on release.  A signal step that removes the head of a
\* queue removes exactly the head; if entries remain, it pushes the new head
\* (and nothing else) to the output and leaves the queue locked; if none
\* remains, it pushes nothing and leaves the queue unlocked, in multi mode
\* with its key deleted from the mapping.
C14_EagerPromotion ==
  [][SignalStep =>
       \A name \in QueueNames :
         LET q == QueueIn(Now, name)
             q2 == QueueIn(Next_, name)
         IN  Len(q2) < Len(q) =>
               /\ q2 = Tail(q)
               /\ pc' = "signal"
               /\ IF q2 # <<>>
                  THEN /\ Pushed = <<q2[1].data>>
                       /\ output' = Append(output, q2[1].data)
                       /\ LockedIn(Next_, name)
                  ELSE /\ Pushed = <<>>
                       /\ output' = output
                       /\ ~LockedIn(Next_, name)
                       /\ mode = "modeMulti" => name \notin DOMAIN queues']_vars

\* Single mode: a release has just removed the holder, and the entry that
\* was behind it is the head, locked, and the last payload of the output.
C14_Witness ==
  /\ mode = "modeSingle"
  /\ pc = "signal"
  /\ lastSignal # <<>>
  /\ lastSignal[1].did = "released"
  /\ queue # <<>>
  /\ locked
  /\ output # <<>>
  /\ output[Len(output)] = queue[1].data
  /\ Len(emitted) >= 2

\* The head of a queue holds the lock: the queue is locked and its head has
\* been emitted.
HasHolder(name) ==
  /\ LockedIn(Now, name)
  /\ QueueIn(Now, name) # <<>>
  /\ QueueIn(Now, name)[1].data \in Range(emitted)

\* The step processes a release signal that matches the holder of the queue:
\* in single mode its key is the head's key, in multi mode the queue's key.
MatchingRelease(name) ==
  /\ SignalStep
  /\ TheSignal.hasKey
  /\ TheSignal.key = (IF mode = "modeSingle" THEN queue[1].key ELSE name)

\* C15: the lock is held until a matching release.  Every step that is not
\* the processing of a release signal matching the holder (arrivals,
\* promotions, other signals, returns, new invocations) leaves the holder at
\* the head of its locked queue and emits no entry of that queue.
C15_HeldUntilMatchingRelease ==
  [][\A name \in QueueNames :
       (HasHolder(name) /\ ~MatchingRelease(name))
         => /\ QueueIn(Next_, name) # <<>>
            /\ QueueIn(Next_, name)[1] = QueueIn(Now, name)[1]
            /\ LockedIn(Next_, name)
            /\ \A d \in Range(Pushed) : QueueOf(d) # name]_vars

\* Single mode: the holder of the previous invocation is still the head
\* after an arrival and a signal with another key.
C15_Witness ==
  /\ mode = "modeSingle"
  /\ pc = "signal"
  /\ lastSignal # <<>>
  /\ lastSignal[1].did = "mismatch"
  /\ nextId > start.nextId
  /\ start.locked
  /\ locked
  /\ queue[1] = start.queue[1]
  /\ queue[1].data \in Range(emitted)
  /\ output = <<>>

\* The step processes a signal whose key equals the key of the holder of the
\* queue, whatever that key is.
SignalWithHolderKey(name) ==
  /\ SignalStep
  /\ TheSignal.hasKey
  /\ TheSignal.key = QueueIn(Now, name)[1].key

\* C16: every holder is releasable.  For every key an arrival can carry, the
\* empty string included, processing a signal whose key equals the key of
\* the entry that is the head of its queue and holds the lock removes that
\* entry from the queue.
C16_EveryHolderReleasable ==
  [][\A name \in QueueNames :
       (HasHolder(name) /\ SignalWithHolderKey(name))
         => QueueIn(Next_, name) = Tail(QueueIn(Now, name))]_vars

(***************************************************************************)
(* Progress.  The host keeps invoking the node, and every holder is        *)
(* offered its release: a signal carrying the holder's key is processed,   *)
(* again and again, while the holder is the head of its queue.             *)
(***************************************************************************)

AllQueueNames == {GlobalQueue} \cup Keys

\* A signal carrying the key of the holder of the queue is processed.
ReleaseOffered(name) ==
  /\ Next
  /\ HasHolder(name)
  /\ SignalWithHolderKey(name)

FairSpec ==
  /\ Spec
  /\ WF_vars(Next)
  /\ \A name \in AllQueueNames : SF_vars(ReleaseOffered(name))

AllQueuesEmpty == queue = <<>> /\ queues = EmptyObject

\* C17: progress under fair release.  When every admitted entry is offered a
\* release signal carrying its key while it is the head of its queue, every
\* enqueued entry is eventually emitted, and once arrivals have stopped every
\* queue is eventually empty, and stays so.
C17_ProgressUnderFairRelease ==
  /\ \A d \in 1..MaxEntries :
       (d \in Range(DataOf(arrived))) ~> (d \in Range(emitted))
  /\ \A n \in 1..(MaxEntries + 1) :
       <>[](nextId = n) => <>[]AllQueuesEmpty

\* No payload occurs twice in the sequence.
NoDuplicates(s) == \A j, k \in 1..Len(s) : j # k => s[j] # s[k]

\* The invocation has had no arrival, and no signal of it has changed the
\* queue, whose head held the lock when the invocation started.
HolderUntouched(name) ==
  /\ pc \in {"signal", "returned"}
  /\ nextId = start.nextId
  /\ LockedIn(start, name)
  /\ QueueIn(start, name) # <<>>
  /\ QueueIn(Now, name) = QueueIn(start, name)

\* C18: no double admission.  Every enqueued entry is emitted at most once
\* over all invocations; an invocation without arrivals whose signals, if
\* any, are all ignored emits nothing from a queue whose head already holds
\* the lock.
C18_NoDoubleAdmission ==
  /\ NoDuplicates(emitted)
  /\ \A name \in QueueNames :
       HolderUntouched(name) => \A d \in Range(output) : QueueOf(d) # name

\* An invocation without arrivals has promoted nothing and has ignored a
\* signal, the holder of an earlier invocation still at the head.
C18_Witness ==
  /\ pc = "signal"
  /\ lastSignal # <<>>
  /\ lastSignal[1].did \in {"nokey", "mismatch", "absent"}
  /\ output = <<>>
  /\ \E name \in QueueNames :
       /\ HolderUntouched(name)
       /\ QueueIn(Now, name)[1].data \in Range(emitted)

\* The entries of the queue that the step removes.
Removed(name) == Range(QueueIn(Now, name)) \ Range(QueueIn(Next_, name))

\* C19: no entry is removed unadmitted.  Every entry that a step removes from
\* a queue has been emitted before that step, in the same or an earlier
\* invocation; an entry that never held the lock is never dequeued.
C19_NoRemovalUnadmitted ==
  [][\A name \in QueueNames :
       \A e \in Removed(name) : e.data \in Range(emitted)]_vars

\* Multi mode: a release has removed the emitted head of a queue, and an
\* entry that has not been emitted is still waiting in that queue.
C19_Witness ==
  /\ mode = "modeMulti"
  /\ pc = "signal"
  /\ lastSignal # <<>>
  /\ lastSignal[1].did = "released"
  /\ \E name \in QueueNames :
       /\ QueueIn(start, name) # <<>>
       /\ QueueIn(start, name)[1] \notin Range(QueueIn(Now, name))
       /\ QueueIn(start, name)[1].data \in Range(emitted)
       /\ \E e \in Range(QueueIn(Now, name)) : e.data \notin Range(emitted)

(***************************************************************************)
(* Two nodes side by side: the node of the variables above in single mode  *)
(* and the node `peer` in multi mode, both from empty static data, given   *)
(* the same input batches, every arrival and every signal carrying the     *)
(* key peer.key.  Each step lets both nodes run the same part of           *)
(* Queue.execute; a node whose invocation has thrown waits for the next    *)
(* invocation.                                                             *)
(***************************************************************************)

EqKeys == Keys \ {""}

EqInit ==
  /\ mode = "modeSingle"
  /\ queue = <<>>
  /\ locked = FALSE
  /\ queues = EmptyObject
  /\ keyOrder = <<>>
  /\ pc = "idle"
  /\ i = 1
  /\ output = <<>>
  /\ nextId = 1
  /\ arrived = <<>>
  /\ emitted = <<>>
  /\ start = NoStart
  /\ lastSignal = <<>>
  /\ \E k \in EqKeys : peer = [NoPeer EXCEPT !.key = k]

\* Lines 75-95 in both nodes.
EqBegin ==
  /\ pc \in {"idle", "returned"}
  /\ output' = <<>>
  /\ i' = 1
  /\ pc' = "enqueue"
  /\ start' = [queue |-> queue, locked |-> locked, queues |-> queues, nextId |-> nextId]
  /\ lastSignal' = <<>>
  /\ peer' = [peer EXCEPT !.pc = "enqueue", !.output = <<>>]
  /\ UNCHANGED <<mode, queue, locked, queues, keyOrder, nextId, arrived, emitted>>

\* Lines 101-118: one iteration of the enqueue loop in both nodes, on the same
\* item with the key peer.key.
EqEnqueue ==
  /\ pc = "enqueue" /\ i <= MaxData /\ nextId <= MaxEntries
  /\ LET entry == [key |-> peer.key, data |-> nextId]
     IN  /\ queue' = Push(queue, entry)
         /\ arrived' = Append(arrived, entry)
         /\ peer' = IF peer.pc # "enqueue" THEN peer
                    ELSE IF Lookup(peer.queues, peer.key) = "inherited"
                    THEN [peer EXCEPT !.pc = "thrown", !.output = <<>>]
                    ELSE LET r == MultiEnqueue(peer.queues, peer.keyOrder, entry)
                         IN  [peer EXCEPT !.queues = r.queues,
                                          !.keyOrder = r.keyOrder]
  /\ nextId' = nextId + 1
  /\ i' = i + 1
  /\ UNCHANGED <<mode, locked, queues, keyOrder, pc, output, emitted, start,
                 lastSignal>>

\* Lines 124-140: promotion in both nodes.
EqPromote ==
  /\ pc = "enqueue"
  /\ LET r == SinglePromote(queue, locked)
     IN  /\ locked' = r.locked
         /\ output' = OutputPush(output, r.out)
         /\ emitted' = emitted \o r.out
  /\ peer' = IF peer.pc # "enqueue" THEN peer
             ELSE LET r == MultiPromote(peer.queues, ObjectKeys(peer.keyOrder))
                  IN  [peer EXCEPT !.queues = r.queues,
                                   !.output = OutputPush(peer.output, r.out),
                                   !.pc = "signal"]
  /\ pc' = "signal"
  /\ i' = 1
  /\ UNCHANGED <<mode, queue, queues, keyOrder, nextId, arrived, start, lastSignal>>

\* Lines 146-181: one iteration of the signal loop in both nodes, on the same
\* signal with the key peer.key.
EqSignal ==
  /\ pc = "signal" /\ i <= MaxSignals
  /\ LET sig == [hasKey |-> TRUE, key |-> peer.key]
         found == Lookup(peer.queues, sig.key)
     IN  /\ ~Falsy(sig)
         /\ LET r == SingleRelease(queue, locked, sig.key)
            IN  /\ queue' = r.queue
                /\ locked' = r.locked
                /\ output' = OutputPush(output, r.out)
                /\ emitted' = emitted \o r.out
                /\ lastSignal' = <<[sig |-> sig, did |-> r.did]>>
         /\ peer' = IF peer.pc # "signal" THEN peer
                    ELSE CASE found = "inherited" ->
                                [peer EXCEPT !.pc = "thrown", !.output = <<>>]
                           [] found = "undefined" -> peer
                           [] found = "own" ->
                                LET r == MultiRelease(peer.queues, peer.keyOrder, sig.key)
                                IN  [peer EXCEPT !.queues = r.queues,
                                                 !.keyOrder = r.keyOrder,
                                                 !.output = OutputPush(peer.output, r.out)]
  /\ i' = i + 1
  /\ UNCHANGED <<mode, queues, keyOrder, pc, nextId, arrived, start>>

\* Line 183 in both nodes.
EqReturn ==
  /\ pc = "signal"
  /\ pc' = "returned"
  /\ i' = 1
  /\ lastSignal' = <<>>
  /\ peer' = IF peer.pc = "signal" THEN [peer EXCEPT !.pc = "returned"] ELSE peer
  /\ UNCHANGED <<mode, queue, locked, queues, keyOrder, output, nextId, arrived,
                 emitted, start>>

EqNext ==
  \/ EqBegin
  \/ EqEnqueue
  \/ EqPromote
  \/ EqSignal
  \/ EqReturn

EqSpec == EqInit /\ [][EqNext]_vars

\* The static data of the second node.
PeerNow == [queue |-> <<>>, locked |-> FALSE, queues |-> peer.queues]

\* C20: mode equivalence on one key.  With every arrival and every signal
\* carrying the same non-empty key k, the single mode node and the multi mode
\* node, side by side from empty static data on the same batches, return the
\* same output batch in every invocation, and the global queue of the one
\* equals the queue of k of the other, an absent key being an empty,
\* unlocked queue.
C20_ModeEquivalence ==
  pc = "returned" =>
    /\ peer.pc = "returned"
    /\ peer.output = output
    /\ QueueIn(PeerNow, peer.key) = queue
    /\ LockedIn(PeerNow, peer.key) = locked

====
